---- MODULE Spec2Model ----
(***************************************************************************)
(* Model of src/src/utility.ts: the FileCache class (a name -> sha index   *)
(* kept in memory and persisted as <root>/cache.json).                     *)
(*                                                                         *)
(* State: the text of cache.json on disk, the set of backing files present *)
(* in the root folder, the in-memory document of every owner (a FileCache  *)
(* object held by one process), and the most recent API call with the      *)
(* value it returned.                                                      *)
(*                                                                         *)
(* A JSON text is a sequence of tokens; JSON.stringify and JSON.parse are  *)
(* modelled on that token sequence.  Documents on disk are either texts of *)
(* the declared FileCacheInfo shape or texts that are not JSON at all.     *)
(*                                                                         *)
(* The module also models the promise wrappers downloadFile, requestTxt    *)
(* and downloadFileWithProgress (dl: one request and its promise) and the  *)
(* pure function compareVersion (cv: one call and its result).             *)
(***************************************************************************)
EXTENDS Integers, Sequences, FiniteSets, TLC

\* ------------------------------------------------------------------ bounds

\* Largest number of entries in a cache.json that exists before any owner runs.
MaxLoad == 2

\* Logical file names a caller passes to add and get.
Names == {"a", "b"}

\* Content hashes a caller passes.
Shas == {"1", "2"}

\* Version tags found in a cache.json written by some other program.
Versions == {"1.0", "0.9"}

\* The processes that may hold a FileCache on the same root folder.
Owners == {1, 2}

\* ------------------------------------------------------------------ values

\* No cache.json in the root folder (File.IsFile() is false).
Absent == <<[t |-> "absent", v |-> ""]>>

\* An owner that holds no FileCache object.
NoCache == [version |-> "<no object>", files |-> <<>>]

\* clear() called with its optional argument omitted.
Omitted == "<undefined>"

\* Marker for an argument a call does not take.
NoArg == "<n/a>"

\* JavaScript truthiness of an optional string argument.
Truthy(x) == x # Omitted /\ x # ""

\* Return values: undefined, a File for <root>/<name>, a thrown SyntaxError,
\* or the constructed object.
Undefined == [kind |-> "undefined", path |-> ""]
FileOf(n) == [kind |-> "file", path |-> n]
SyntaxError == [kind |-> "SyntaxError", path |-> ""]
Constructed == [kind |-> "FileCache", path |-> ""]

\* No request has been started.
NoDownload ==
    [fn |-> "none", locked |-> FALSE, resolves |-> 0, value |-> "pending",
     cancelled |-> FALSE, aborts |-> 0, errors |-> 0, received |-> "no",
     result |-> "unset", first |-> "none", expected |-> "pending",
     curIncrement |-> 0]

\* compareVersion has not been called.
NoCompare == [v1 |-> <<>>, v2 |-> <<>>, ret |-> [kind |-> "none", val |-> 0, of |-> "-"]]

\* ------------------------------------------------------------------ JSON

P(c) == [t |-> "punct", v |-> c]
S(x) == [t |-> "str", v |-> x]

StringifyEntry(e) ==
    <<P("{"), S("name"), P(":"), S(e.name), P(","), S("sha"), P(":"), S(e.sha), P("}")>>

RECURSIVE StringifyEntries(_)
StringifyEntries(fs) ==
    IF fs = <<>> THEN <<>>
    ELSE IF Len(fs) = 1 THEN StringifyEntry(fs[1])
    ELSE StringifyEntry(fs[1]) \o <<P(",")>> \o StringifyEntries(Tail(fs))

\* A serializer that writes the version and the first entry only.
StringifyFirstOnly(d) ==
    <<P("{"), S("version"), P(":"), S(d.version), P(","), S("files"), P(":"), P("[")>>
        \o (IF d.files = <<>> THEN <<>> ELSE StringifyEntry(d.files[1])) \o <<P("]"), P("}")>>

\* JSON.stringify(this.cache)
Stringify(d) ==
    <<P("{"), S("version"), P(":"), S(d.version), P(","), S("files"), P(":"), P("[")>>
        \o StringifyEntries(d.files) \o <<P("]"), P("}")>>

ParseFail == [ok |-> FALSE, files |-> <<>>, next |-> 0]

At(t, k, tok) == k <= Len(t) /\ t[k] = tok
IsStr(t, k) == k <= Len(t) /\ t[k].t = "str"

\* One {"name": <str>, "sha": <str>} object starting at token k.
ParseEntry(t, k) ==
    IF /\ At(t, k, P("{")) /\ At(t, k + 1, S("name")) /\ At(t, k + 2, P(":"))
       /\ IsStr(t, k + 3) /\ At(t, k + 4, P(",")) /\ At(t, k + 5, S("sha"))
       /\ At(t, k + 6, P(":")) /\ IsStr(t, k + 7) /\ At(t, k + 8, P("}"))
    THEN [ok |-> TRUE, files |-> <<[name |-> t[k + 3].v, sha |-> t[k + 7].v]>>, next |-> k + 9]
    ELSE ParseFail

RECURSIVE ParseElems(_, _, _)
ParseElems(t, k, acc) ==
    LET e == ParseEntry(t, k) IN
    IF ~e.ok THEN ParseFail
    ELSE IF At(t, e.next, P(",")) THEN ParseElems(t, e.next + 1, acc \o e.files)
    ELSE IF At(t, e.next, P("]")) THEN [ok |-> TRUE, files |-> acc \o e.files, next |-> e.next + 1]
    ELSE ParseFail

ParseArray(t, k) ==
    IF ~At(t, k, P("[")) THEN ParseFail
    ELSE IF At(t, k + 1, P("]")) THEN [ok |-> TRUE, files |-> <<>>, next |-> k + 2]
    ELSE ParseElems(t, k + 1, <<>>)

\* JSON.parse(text) succeeds.
IsJSON(t) ==
    /\ At(t, 1, P("{")) /\ At(t, 2, S("version")) /\ At(t, 3, P(":")) /\ IsStr(t, 4)
    /\ At(t, 5, P(",")) /\ At(t, 6, S("files")) /\ At(t, 7, P(":"))
    /\ LET a == ParseArray(t, 8) IN a.ok /\ At(t, a.next, P("}")) /\ Len(t) = a.next

\* JSON.parse(text), for a text that is JSON.
Parse(t) == [version |-> t[4].v, files |-> ParseArray(t, 8).files]

\* ------------------------------------------------------------------ state

VARIABLES
    disk,   \* text of <root>/cache.json, or Absent
    files,  \* names of the backing files present in the root folder
    cache,  \* cache[i]: this.cache of owner i's FileCache, or NoCache
    call,   \* the most recent FileCache call and the value it returned
    dl,     \* the request in flight, its resolveIf lock and its promise
    cv      \* the arguments and the outcome of the compareVersion call

vars == <<disk, files, cache, call, dl, cv>>

\* { version: '1.0', files: [] }
FreshDoc == [version |-> "1.0", files |-> <<>>]

\* What a caller passes to clear(name?): a name, the empty string, or nothing.
ClearArgs == Names \cup {"", Omitted}

\* File.fromArray([this.folder.path, name]).IsFile()
IsFile(n) == n \in files

\* this.cacheFile.IsFile()
CacheFileIsFile == disk # Absent

RECURSIVE Docs(_)
\* Every entry list of at most k entries (names may repeat).
Docs(k) ==
    IF k = 0 THEN {<<>>}
    ELSE LET shorter == Docs(k - 1) IN
         shorter \cup {Append(fs, [name |-> n, sha |-> s]) :
                          fs \in {x \in shorter : Len(x) = k - 1}, n \in Names, s \in Shas}

\* Documents another program (or an earlier run) may have left on disk.
LoadDocs == {[version |-> v, files |-> fs] : v \in Versions, fs \in Docs(MaxLoad)}

\* Texts that are not JSON: a write of a document cut short.
CorruptTexts == {SubSeq(Stringify(FreshDoc), 1, k) : k \in 0..(Len(Stringify(FreshDoc)) - 1)}

InitDisks == {Absent} \cup {Stringify(d) : d \in LoadDocs} \cup CorruptTexts

Called(op, i, n, s, v) == [op |-> op, by |-> i, name |-> n, sha |-> s, val |-> v]

Init ==
    /\ disk \in InitDisks
    /\ files = {}
    /\ cache = [i \in Owners |-> NoCache]
    /\ call = Called("none", 0, NoArg, NoArg, Undefined)
    /\ dl = NoDownload
    /\ cv = NoCompare

\* ------------------------------------------------------------------ FileCache

\* Array.prototype.findIndex with the predicate inf.name == name
\* (1-based; -1 when nothing matches).
FindName(fs, n) ==
    LET hits == {k \in 1..Len(fs) : fs[k].name = n} IN
    IF hits = {} THEN -1 ELSE CHOOSE k \in hits : \A j \in hits : k <= j

\* findIndex with the predicate inf.name == name && inf.sha == sha.
FindNameSha(fs, n, s) ==
    LET hits == {k \in 1..Len(fs) : fs[k].name = n /\ fs[k].sha = s} IN
    IF hits = {} THEN -1 ELSE CHOOSE k \in hits : \A j \in hits : k <= j

\* Array.prototype.splice(idx, 1)
Splice(fs, idx) == SubSeq(fs, 1, idx - 1) \o SubSeq(fs, idx + 1, Len(fs))

\* add that pushes a new entry without looking for an existing one.
AddDocAlwaysPush(d, n, s) == [d EXCEPT !.files = Append(@, [name |-> n, sha |-> s])]

\* add that, on an existing name, replaces the list by the one updated entry.
AddDocDropOthers(d, n, s) ==
    LET idx == FindName(d.files, n) IN
    IF idx # -1 THEN [d EXCEPT !.files = <<[name |-> n, sha |-> s]>>]
    ELSE [d EXCEPT !.files = Append(@, [name |-> n, sha |-> s])]

\* add that overwrites the sha of every entry of the name.
AddDocOverwriteAll(d, n, s) ==
    IF FindName(d.files, n) # -1
    THEN [d EXCEPT !.files = [k \in 1..Len(@) |->
                                 IF @[k].name = n THEN [name |-> n, sha |-> s] ELSE @[k]]]
    ELSE [d EXCEPT !.files = Append(@, [name |-> n, sha |-> s])]

\* The document after add(name, sha).
AddDoc(d, n, s) ==
    LET idx == FindName(d.files, n) IN
    IF idx # -1 THEN [d EXCEPT !.files[idx].sha = s]
    ELSE [d EXCEPT !.files = Append(@, [name |-> n, sha |-> s])]

\* get that looks the entry up by name alone.
GetValByName(d, n, s) ==
    LET idx == FindName(d.files, n) IN
    IF idx = -1 THEN Undefined
    ELSE IF ~IsFile(d.files[idx].name) THEN Undefined
    ELSE FileOf(d.files[idx].name)

\* The value get(name, sha) returns.
GetVal(d, n, s) ==
    LET idx == FindNameSha(d.files, n, s) IN
    IF idx = -1 THEN Undefined
    ELSE IF ~IsFile(d.files[idx].name) THEN Undefined
    ELSE FileOf(d.files[idx].name)

\* clear that does nothing when its argument is omitted.
ClearDocNamedOnly(d, n) ==
    IF Truthy(n) THEN
        LET idx == FindName(d.files, n) IN
        IF idx # -1 THEN [d EXCEPT !.files = Splice(@, idx)] ELSE d
    ELSE d

\* The document after clear(name?).
ClearDoc(d, n) ==
    IF Truthy(n) THEN
        LET idx == FindName(d.files, n) IN
        IF idx # -1 THEN [d EXCEPT !.files = Splice(@, idx)] ELSE d
    ELSE [d EXCEPT !.files = <<>>]

\* this.cacheFile.Read(): the text of cache.json.
Read == disk

\* The document new FileCache(rootFolder) holds when the constructor returns.
LoadDoc == IF CacheFileIsFile THEN Parse(Read) ELSE FreshDoc

\* JSON.parse(this.cacheFile.Read()) throws.
ParseThrows == CacheFileIsFile /\ ~IsJSON(Read)

\* A constructor that falls back to a fresh document when the parse fails.
constructorLenient(i) ==
    /\ cache' = [cache EXCEPT ![i] = IF ParseThrows THEN FreshDoc ELSE LoadDoc]
    /\ call' = Called("constructor", i, NoArg, NoArg, Constructed)
    /\ UNCHANGED <<disk, files, dl, cv>>

\* new FileCache(rootFolder) by owner i: a throw leaves i with what it held.
constructor(i) ==
    /\ cache' = IF ParseThrows THEN cache ELSE [cache EXCEPT ![i] = LoadDoc]
    /\ call' = Called("constructor", i, NoArg, NoArg,
                      IF ParseThrows THEN SyntaxError ELSE Constructed)
    /\ UNCHANGED <<disk, files, dl, cv>>

\* add that writes through to cache.json.
addWriteThrough(i, n, s) ==
    /\ cache[i] # NoCache
    /\ cache' = [cache EXCEPT ![i] = AddDoc(@, n, s)]
    /\ disk' = Stringify(AddDoc(cache[i], n, s))
    /\ call' = Called("add", i, n, s, Undefined)
    /\ UNCHANGED <<files, dl, cv>>

add(i, n, s) ==
    /\ cache[i] # NoCache
    /\ cache' = [cache EXCEPT ![i] = AddDoc(@, n, s)]
    /\ call' = Called("add", i, n, s, Undefined)
    /\ UNCHANGED <<disk, files, dl, cv>>

\* get that drops the entry it found when the backing file is missing.
getEvictStale(i, n, s) ==
    LET idx == FindNameSha(cache[i].files, n, s) IN
    /\ cache[i] # NoCache
    /\ cache' = IF idx # -1 /\ ~IsFile(n)
                THEN [cache EXCEPT ![i].files = Splice(@, idx)] ELSE cache
    /\ call' = Called("get", i, n, s, GetVal(cache[i], n, s))
    /\ UNCHANGED <<disk, files, dl, cv>>

get(i, n, s) ==
    /\ cache[i] # NoCache
    /\ call' = Called("get", i, n, s, GetVal(cache[i], n, s))
    /\ UNCHANGED <<disk, files, cache, dl, cv>>

clear(i, n) ==
    /\ cache[i] # NoCache
    /\ cache' = [cache EXCEPT ![i] = ClearDoc(@, n)]
    /\ call' = Called("clear", i, n, NoArg, Undefined)
    /\ UNCHANGED <<disk, files, dl, cv>>

RECURSIVE MergeInto(_, _)
\* d with every entry of fs added.
MergeInto(d, fs) ==
    IF fs = <<>> THEN d ELSE MergeInto(AddDoc(d, fs[1].name, fs[1].sha), Tail(fs))

\* save that first merges its entries into the document found on disk.
saveMerged(i) ==
    /\ cache[i] # NoCache
    /\ disk' = IF CacheFileIsFile /\ IsJSON(disk)
               THEN Stringify(MergeInto(Parse(disk), cache[i].files))
               ELSE Stringify(cache[i])
    /\ call' = Called("save", i, NoArg, NoArg, Undefined)
    /\ UNCHANGED <<files, cache, dl, cv>>

\* this.cacheFile.Write(JSON.stringify(this.cache)): one synchronous write of
\* the whole text.
save(i) ==
    /\ cache[i] # NoCache
    /\ disk' = Stringify(cache[i])
    /\ call' = Called("save", i, NoArg, NoArg, Undefined)
    /\ UNCHANGED <<files, cache, dl, cv>>

\* ------------------------------------------------------------------ environment

\* A backing file is written into the root folder (a download completes).
CreateFile(n) ==
    /\ n \notin files
    /\ files' = files \cup {n}
    /\ UNCHANGED <<disk, cache, call, dl, cv>>

\* A backing file is deleted out-of-band.
DeleteFile(n) ==
    /\ n \in files
    /\ files' = files \ {n}
    /\ UNCHANGED <<disk, cache, call, dl, cv>>

\* ------------------------------------------------------------------ specifications

Api(i) ==
    \/ constructor(i)
    \/ \E n \in Names, s \in Shas : add(i, n, s)
    \/ \E n \in Names, s \in Shas : get(i, n, s)
    \/ \E n \in ClearArgs : clear(i, n)
    \/ save(i)

Env ==
    \/ \E n \in Names : CreateFile(n)
    \/ \E n \in Names : DeleteFile(n)

\* One owner on a folder whose cache.json is absent, well-formed, carries
\* repeated names, or is not JSON.
Next == Api(1) \/ Env

Spec == Init /\ [][Next]_vars

\* A folder in which no cache.json exists yet.
InitFresh ==
    /\ disk = Absent
    /\ files = {}
    /\ cache = [i \in Owners |-> NoCache]
    /\ call = Called("none", 0, NoArg, NoArg, Undefined)
    /\ dl = NoDownload
    /\ cv = NoCompare

\* One owner starting on a fresh folder.
SpecFresh == InitFresh /\ [][Next]_vars

\* Two owners (two editor windows) on the same fresh folder.
NextTwo == (\E i \in Owners : Api(i)) \/ Env

SpecTwo == InitFresh /\ [][NextTwo]_vars

\* ------------------------------------------------------------------ properties

\* The document holds an entry with exactly this name and this sha.
HasEntry(d, n, s) == \E k \in 1..Len(d.files) : d.files[k].name = n /\ d.files[k].sha = s

\* Number of entries of a name.
Count(d, n) == Cardinality({k \in 1..Len(d.files) : d.files[k].name = n})

RECURSIVE Except(_, _)
\* The entries of every name but n, in order.
Except(fs, n) ==
    IF fs = <<>> THEN <<>>
    ELSE IF fs[1].name = n THEN Except(Tail(fs), n)
    ELSE <<fs[1]>> \o Except(Tail(fs), n)

Live == {i \in Owners : cache[i] # NoCache}

\* C1: in every reachable state, get(name, sha) returns the file <root>/<name>
\* exactly when the index holds an entry with that name and that sha and the
\* backing file exists; otherwise it returns undefined.
C1_HitIffExactMatch ==
    \A i \in Live : \A n \in Names, s \in Shas :
        LET r == GetVal(cache[i], n, s) IN
        /\ r = FileOf(n) <=> (HasEntry(cache[i], n, s) /\ n \in files)
        /\ r # FileOf(n) => r = Undefined

\* A get has just hit while the index also holds the same sha under the other
\* name, whose get misses because its file is missing.
C1_Witness ==
    /\ call.op = "get" /\ call.val = FileOf(call.name)
    /\ HasEntry(cache[call.by], call.name, call.sha)
    /\ \E m \in Names \ {call.name} :
          HasEntry(cache[call.by], m, call.sha) /\ GetVal(cache[call.by], m, call.sha) = Undefined

\* C2: starting from a folder without cache.json, after any sequence of
\* construction, add, get, clear and save, the entry list holds at most one
\* entry per name.
C2_UniqueNames == \A i \in Live : \A n \in Names : Count(cache[i], n) <= 1

\* A cache re-constructed from a cache.json its own save() wrote, holding an
\* entry for every name.
C2_Witness ==
    /\ call.op = "constructor" /\ call.val = Constructed
    /\ disk # Absent
    /\ \A n \in Names : Count(cache[call.by], n) = 1

\* C3: every add(name, s2), whatever preceded it (an add(name, s1) included),
\* leaves exactly one entry for name, with sha s2, leaves the entries of every
\* other name as they were, and makes get(name, s1) absent for every s1 # s2.
C3_Upsert ==
    [][\A i \in Owners, n \in Names, s2 \in Shas :
          add(i, n, s2) =>
              /\ Count(cache'[i], n) = 1
              /\ HasEntry(cache'[i], n, s2)
              /\ Except(cache'[i].files, n) = Except(cache[i].files, n)
              /\ \A s1 \in Shas \ {s2} : ~HasEntry(cache'[i], n, s1)
              /\ \A s1 \in Shas \ {s2} : GetVal(cache'[i], n, s1) = Undefined]_vars

\* add(name, s1) was saved, then add(name, s2) with another sha replaced it in
\* memory while an entry of the other name stands.
C3_Witness ==
    /\ call.op = "add" /\ disk # Absent
    /\ \E s1 \in Shas \ {call.sha} : HasEntry(Parse(disk), call.name, s1)
    /\ HasEntry(cache[call.by], call.name, call.sha)
    /\ \E m \in Names \ {call.name} : Count(cache[call.by], m) = 1

\* C4: cache.json changes only in a save() step, and then it becomes the
\* serialization of the saving owner's in-memory document; construction, add,
\* get and clear leave it as it is (absent if it was absent).
C4_DiskOnlyInSave ==
    [][/\ disk' # disk => \E i \in Owners : save(i) /\ disk' = Stringify(cache[i])
       /\ \A i \in Owners :
             (\/ constructor(i)
              \/ \E n \in Names, s \in Shas : add(i, n, s) \/ get(i, n, s)
              \/ \E n \in ClearArgs : clear(i, n)) => disk' = disk]_vars

\* After an add the in-memory document differs from what is on disk, and
\* cache.json still does not exist.
C4_Witness ==
    /\ call.op = "add" /\ disk = Absent
    /\ cache[call.by].files # <<>>

\* C5: right after save(), the document a new FileCache on the same folder
\* loads is the saver's in-memory document, and every get on it returns what
\* the saver's get returns.
C5_RoundTrip ==
    /\ [](call.op = "save" =>
            /\ ~ParseThrows
            /\ LoadDoc = cache[call.by]
            /\ \A n \in Names, s \in Shas :
                  GetVal(LoadDoc, n, s) = GetVal(cache[call.by], n, s))
    /\ [][\A j \in Owners :
            (call.op = "save" /\ constructor(j)) =>
                /\ call'.val = Constructed
                /\ cache'[j] = cache[call.by]]_vars

\* A second owner has constructed its cache from the file the first one saved:
\* both hold the same two entries and a get on the new one hits.
C5_Witness ==
    /\ call.op = "constructor" /\ call.by = 2
    /\ cache[1] # NoCache /\ cache[2] = cache[1]
    /\ Len(cache[2].files) = 2
    /\ \E n \in Names, s \in Shas : GetVal(cache[2], n, s) = FileOf(n)

\* C6: for every string given as the argument (the empty string included),
\* clear(name) removes the entry of that name, is a no-op when there is none,
\* and leaves the entries of every other name as they were.
C6_ClearOneSelective ==
    [][\A i \in Owners, n \in Names \cup {""} :
          clear(i, n) =>
              /\ Count(cache'[i], n) = 0
              /\ Count(cache[i], n) = 0 => cache'[i] = cache[i]
              /\ Except(cache'[i].files, n) = Except(cache[i].files, n)]_vars

\* C7: clear() with no argument leaves an empty index; an empty index stays empty
\* until the owner's next add (or a new construction), and on an empty index
\* every get returns undefined whatever backing files exist.
C7_ClearAllEmpties ==
    /\ [](call.op = "clear" /\ call.name = Omitted => cache[call.by].files = <<>>)
    /\ [][\A i \in Owners :
            (/\ cache[i] # NoCache /\ cache[i].files = <<>>
             /\ ~constructor(i)
             /\ ~\E n \in Names, s \in Shas : add(i, n, s)) => cache'[i].files = <<>>]_vars
    /\ [](\A i \in Live : cache[i].files = <<>> =>
            \A n \in Names, s \in Shas : GetVal(cache[i], n, s) = Undefined)

\* clear() was called while cache.json holds two entries and every backing
\* file exists, and the index is empty.
C7_Witness ==
    /\ call.op = "clear" /\ call.name = Omitted
    /\ files = Names
    /\ disk # Absent /\ IsJSON(disk) /\ Len(Parse(disk).files) = 2
    /\ cache[call.by].files = <<>>

\* C8: a get leaves every in-memory document as it was; when the entry
\* (name, sha) is indexed and its backing file is missing the get returns
\* undefined, and when the file is present it returns the file.
C8_StaleTolerated ==
    [][\A i \in Owners, n \in Names, s \in Shas :
          get(i, n, s) =>
              /\ cache' = cache
              /\ HasEntry(cache'[i], n, s) = HasEntry(cache[i], n, s)
              /\ (HasEntry(cache[i], n, s) /\ n \notin files) => call'.val = Undefined
              /\ (HasEntry(cache[i], n, s) /\ n \in files) => call'.val = FileOf(n)]_vars

\* A get of an indexed (name, sha) has returned undefined because the backing
\* file is gone; the entry is still in the index.
C8_Witness ==
    /\ call.op = "get" /\ call.val = Undefined
    /\ call.name \notin files
    /\ HasEntry(cache[call.by], call.name, call.sha)

\* C9: construction never changes cache.json.  Without cache.json it yields
\* version "1.0" and no entries; with a JSON cache.json it yields the document
\* whose serialization is that text; with a cache.json that is not JSON it
\* throws and produces no object.
C9_Construction ==
    [][\A i \in Owners :
          constructor(i) =>
              /\ disk' = disk
              /\ disk = Absent =>
                    /\ call'.val = Constructed
                    /\ cache'[i] = [version |-> "1.0", files |-> <<>>]
              /\ (disk # Absent /\ IsJSON(disk)) =>
                    /\ call'.val = Constructed
                    /\ Stringify(cache'[i]) = disk
              /\ (disk # Absent /\ ~IsJSON(disk)) =>
                    /\ call'.val = SyntaxError
                    /\ cache' = cache]_vars

\* Construction on a truncated cache.json has thrown and the owner holds no
\* cache object.
C9_Witness ==
    /\ call.op = "constructor" /\ call.val = SyntaxError
    /\ disk \in CorruptTexts /\ disk # <<>>
    /\ cache[call.by] = NoCache

\* C10: with two owners on one folder, each save() leaves on disk exactly the
\* saving owner's in-memory document: an entry is on disk afterwards if and
\* only if the saver holds it, whatever the other owner holds or had saved.
C10_LastSaveWins ==
    [][\A j \in Owners :
          save(j) =>
              /\ IsJSON(disk')
              /\ Parse(disk') = cache[j]
              /\ \A n \in Names, s \in Shas :
                    HasEntry(Parse(disk'), n, s) <=> HasEntry(cache[j], n, s)]_vars

\* Owner 2 has saved; owner 1 holds an entry that is on disk no longer.
C10_Witness ==
    /\ call.op = "save" /\ call.by = 2
    /\ cache[1] # NoCache
    /\ \E n \in Names, s \in Shas :
          HasEntry(cache[1], n, s) /\ ~HasEntry(Parse(disk), n, s)

\* ------------------------------------------------------------------ downloads

\* Largest number of 'error' events one request emits.
MaxErrors == 2

\* Progress is counted in steps of 1/ProgressScale of the whole download.
ProgressScale == 2

\* The three promise wrappers; only the last takes a cancellation token.
Fns == {"downloadFile", "requestTxt", "downloadFileWithProgress"}

\* resolve(data) of the returned promise: the first call settles it.
Resolve(d, data) ==
    [d EXCEPT !.resolves = @ + 1, !.value = IF @ = "pending" THEN data ELSE @]

\* resolveIf without its lock.
ResolveIfUnlocked(d, data) == Resolve([d EXCEPT !.locked = TRUE], data)

\* resolveIf(data): if (!locked) { locked = true; resolve(data); }
ResolveIf(d, data) ==
    IF ~d.locked THEN Resolve([d EXCEPT !.locked = TRUE], data) ELSE d

\* History: the first event of the request and the outcome that event carries.
Observe(d, ev, data) ==
    IF d.first = "none" THEN [d EXCEPT !.first = ev, !.expected = data] ELSE d

\* The Error built when the response is not a success with content.
FailedError(fn) ==
    IF fn = "requestTxt" THEN "Error: Request failed" ELSE "Error: Download file failed"

\* The result of a completed response computed as downloadFile computes it,
\* without looking at the token.
ResultIgnoringToken(fn, success, content, cancelled) ==
    IF success /\ content THEN "content" ELSE FailedError(fn)

\* The local `result` after the awaited response: the content, a failure
\* Error, or (downloadFileWithProgress with a cancelled token) undefined.
Result(fn, success, content, cancelled) ==
    IF success /\ content THEN "content"
    ELSE IF fn # "downloadFileWithProgress" THEN FailedError(fn)
    ELSE IF cancelled = FALSE THEN FailedError(fn)
    ELSE "undefined"

\* The promise executor up to the await: locked = false, listeners registered.
Start(fn) ==
    /\ dl.fn = "none"
    /\ dl' = [NoDownload EXCEPT !.fn = fn]
    /\ UNCHANGED <<disk, files, cache, call, cv>>

downloadFile == Start("downloadFile")

requestTxt == Start("requestTxt")

downloadFileWithProgress == Start("downloadFileWithProgress")

\* netReq.on('error', (err) => resolveIf(err))
OnError ==
    /\ dl.fn # "none"
    /\ dl.errors < MaxErrors
    /\ dl' = ResolveIf(Observe([dl EXCEPT !.errors = @ + 1], "error", "Error: net"),
                       "Error: net")
    /\ UNCHANGED <<disk, files, cache, call, cv>>

\* token.onCancellationRequested(() => { netReq.emit('abort'); resolveIf(undefined); })
OnCancellationRequested ==
    /\ dl.fn = "downloadFileWithProgress"
    /\ ~dl.cancelled
    /\ dl' = ResolveIf(Observe([dl EXCEPT !.cancelled = TRUE, !.aborts = @ + 1],
                               "cancel", "undefined"),
                       "undefined")
    /\ UNCHANGED <<disk, files, cache, call, cv>>

\* The progress callback: curIncrement += increment, limited to 100 %.
OnProgress(increment) ==
    /\ dl.fn = "downloadFileWithProgress"
    /\ dl.received = "no"
    /\ dl' = [dl EXCEPT !.curIncrement =
                  IF @ + increment > ProgressScale THEN ProgressScale ELSE @ + increment]
    /\ UNCHANGED <<disk, files, cache, call, cv>>

\* The code after `await netReq.Request...`: compute result, resolveIf(result).
Received(success, content) ==
    LET result == Result(dl.fn, success, content, dl.cancelled) IN
    /\ dl.fn # "none"
    /\ dl.received = "no"
    /\ dl' = ResolveIf(Observe([dl EXCEPT !.received = IF success THEN "success" ELSE "failure",
                                          !.result = result],
                               "received", result),
                       result)
    /\ UNCHANGED <<disk, files, cache, call, cv>>

NextDl ==
    \/ downloadFile
    \/ requestTxt
    \/ downloadFileWithProgress
    \/ OnError
    \/ OnCancellationRequested
    \/ \E increment \in 1..ProgressScale : OnProgress(increment)
    \/ \E success \in BOOLEAN, content \in BOOLEAN : Received(success, content)

\* One request from its start, with error events, a cancellation and the
\* completion of the response in any order.
SpecDl == InitFresh /\ [][NextDl]_vars

\* C11: under every interleaving of error events, a cancellation and the
\* completion of the response, resolve is called at most once, the promise
\* holds the outcome of the first of these events, and once settled its value
\* never changes.
C11_ResolveOnce ==
    /\ [](/\ dl.resolves <= 1
          /\ dl.first = "none" => (dl.resolves = 0 /\ dl.value = "pending")
          /\ dl.first # "none" => (dl.resolves = 1 /\ dl.value = dl.expected))
    /\ [][dl.value # "pending" => dl'.value = dl.value]_vars

\* An error event, a cancellation and a failed response have all happened, the
\* error first; the promise holds the error and resolve was called once.
C11_Witness ==
    /\ dl.fn = "downloadFileWithProgress"
    /\ dl.first = "error" /\ dl.errors = MaxErrors /\ dl.cancelled /\ dl.received = "failure"
    /\ dl.resolves = 1 /\ dl.value = "Error: net"

\* C13: a cancellation requested before any error event and before the response
\* completes emits 'abort' and settles the promise with undefined, which no
\* later event turns into an Error; a response that completes unsuccessfully
\* with the token cancelled produces undefined, not a failure Error.
C13_CancelOutcome ==
    /\ [][(OnCancellationRequested /\ dl.errors = 0 /\ dl.received = "no") =>
              (dl'.aborts = dl.aborts + 1 /\ dl'.value = "undefined")]_vars
    /\ [](dl.first = "cancel" => (dl.aborts = 1 /\ dl.value = "undefined"))
    /\ [][\A success \in BOOLEAN, content \in BOOLEAN :
              (Received(success, content) /\ dl.cancelled /\ ~(success /\ content)) =>
                  dl'.result = "undefined"]_vars

\* Cancellation came first, then the response failed and an error event was
\* emitted: the result is undefined and the promise holds undefined.
C13_Witness ==
    /\ dl.first = "cancel" /\ dl.aborts = 1
    /\ dl.received = "failure" /\ dl.result = "undefined"
    /\ dl.errors > 0
    /\ dl.value = "undefined" /\ dl.resolves = 1

\* ------------------------------------------------------------------ duplicates on load

\* The positions of the entries of a name.
Positions(d, n) == {k \in 1..Len(d.files) : d.files[k].name = n}

\* C12: a constructor keeps the entries of a JSON cache.json as they are,
\* repeated names included; add(name, sha) rewrites the sha of the first entry
\* of the name and nothing else, or appends one entry when the name has none;
\* so no step of a constructed cache raises the number of entries of a name
\* above the larger of 1 and what it was (by induction: of 1 and the count at
\* load).
C12_DuplicatesOnLoad ==
    [][/\ (call'.op = "constructor" /\ constructor(call'.by) /\ disk # Absent /\ IsJSON(disk)) =>
             \A n \in Names : Count(cache'[call'.by], n) = Count(Parse(disk), n)
       /\ (call'.op = "add" /\ add(call'.by, call'.name, call'.sha)) =>
             LET n == call'.name
                 s == call'.sha
                 old == cache[call'.by].files
                 new == cache'[call'.by].files
                 at == Positions(cache[call'.by], n) IN
             IF at = {}
             THEN new = old \o <<[name |-> n, sha |-> s]>>
             ELSE /\ Len(new) = Len(old)
                  /\ \A k \in 1..Len(old) :
                        new[k] = IF k \in at /\ \A j \in at : k <= j
                                 THEN [name |-> n, sha |-> s] ELSE old[k]
       /\ \A i \in Owners :
             (cache'[i] # cache[i] /\ ~constructor(i)) =>
                 \A n \in Names :
                     Count(cache'[i], n) <= (IF Count(cache[i], n) > 1 THEN Count(cache[i], n) ELSE 1)]_vars

\* A cache loaded with two entries of one name: an add of that name has
\* rewritten the first and left the second with its other sha.
C12_Witness ==
    /\ call.op = "add"
    /\ Count(cache[call.by], call.name) = 2
    /\ LET fs == cache[call.by].files IN
       /\ Len(fs) = 2
       /\ fs[1].sha = call.sha
       /\ fs[2].sha # call.sha

\* ------------------------------------------------------------------ compareVersion

\* Longest version string passed to compareVersion.
MaxVersionLen == 3

\* The characters of a version string: digits, the dot, a blank, a letter.
Alphabet == {"0", "1", ".", " ", "x"}

RECURSIVE Strings(_)
\* Every string of at most k characters.
Strings(k) ==
    IF k = 0 THEN {<<>>}
    ELSE LET shorter == Strings(k - 1) IN
         shorter \cup {Append(s, c) : s \in {x \in shorter : Len(x) = k - 1}, c \in Alphabet}

\* The version strings a caller passes.
VersionStrings == Strings(MaxVersionLen)

RECURSIVE SplitAcc(_, _, _)
SplitAcc(v, cur, acc) ==
    IF v = <<>> THEN Append(acc, cur)
    ELSE IF Head(v) = "." THEN SplitAcc(Tail(v), <<>>, Append(acc, cur))
    ELSE SplitAcc(Tail(v), Append(cur, Head(v)), acc)

\* String.prototype.split('.')
Split(v) == SplitAcc(v, <<>>, <<>>)

RECURSIVE TrimStart(_)
TrimStart(s) == IF s # <<>> /\ Head(s) = " " THEN TrimStart(Tail(s)) ELSE s

RECURSIVE TrimEnd(_)
TrimEnd(s) == IF s # <<>> /\ s[Len(s)] = " " THEN TrimEnd(SubSeq(s, 1, Len(s) - 1)) ELSE s

\* String.prototype.trim()
Trim(s) == TrimEnd(TrimStart(s))

NonBlank(s) == Trim(s) # <<>>

\* v.split('.').filter((s) => s.trim() != '')
Components(v) == SelectSeq(Split(v), NonBlank)

\* The value isNaN() is true of.
NaN == -1

isNaN(x) == x = NaN

IsDigit(c) == c \in {"0", "1"}

DigitValue(c) == IF c = "1" THEN 1 ELSE 0

RECURSIVE DigitPrefix(_)
\* The longest run of digits a string starts with.
DigitPrefix(s) ==
    IF s # <<>> /\ IsDigit(Head(s)) THEN <<Head(s)>> \o DigitPrefix(Tail(s)) ELSE <<>>

RECURSIVE ValueIn(_, _)
\* The number a run of digits denotes in a radix.
ValueIn(ds, radix) ==
    IF ds = <<>> THEN 0
    ELSE ValueIn(SubSeq(ds, 1, Len(ds) - 1), radix) * radix + DigitValue(ds[Len(ds)])

\* parseInt(s) with no radix: leading blanks are skipped, a 0x prefix selects
\* radix 16, the longest run of digits is read and the rest is ignored; NaN
\* when there is no digit.
parseInt(s) ==
    LET t == TrimStart(s)
        hex == Len(t) >= 2 /\ t[1] = "0" /\ t[2] = "x"
        ds == IF hex THEN DigitPrefix(SubSeq(t, 3, Len(t))) ELSE DigitPrefix(t) IN
    IF ds = <<>> THEN NaN ELSE ValueIn(ds, IF hex THEN 16 ELSE 10)

Return(x) == [kind |-> "return", val |-> x, of |-> "-"]
Throw(which) == [kind |-> "throw", val |-> 0, of |-> which]

Min(a, b) == IF a < b THEN a ELSE b

RECURSIVE PerNumber(_, _, _)
\* The loop over the first minLen components, then the comparison of lengths.
PerNumber(v1_li, v2_li, index) ==
    IF index <= Min(Len(v1_li), Len(v2_li)) THEN
        LET v_1 == parseInt(v1_li[index])
            v_2 == parseInt(v2_li[index]) IN
        IF isNaN(v_1) THEN Throw("v1")
        ELSE IF isNaN(v_2) THEN Throw("v2")
        ELSE IF v_1 > v_2 THEN Return(1)
        ELSE IF v_1 < v_2 THEN Return(-1)
        ELSE PerNumber(v1_li, v2_li, index + 1)
    ELSE IF Len(v1_li) > Len(v2_li) THEN Return(1)
    ELSE IF Len(v1_li) < Len(v2_li) THEN Return(-1)
    ELSE Return(0)

\* compareVersion that compares the lengths before the numbers.
CompareVersionLengthFirst(v1, v2) ==
    LET v1_li == Components(v1)
        v2_li == Components(v2) IN
    IF Len(v1_li) > Len(v2_li) THEN Return(1)
    ELSE IF Len(v1_li) < Len(v2_li) THEN Return(-1)
    ELSE PerNumber(v1_li, v2_li, 1)

\* What compareVersion(v1, v2) returns or throws.
CompareVersion(v1, v2) == PerNumber(Components(v1), Components(v2), 1)

\* The call has its arguments and has not returned yet.
Pending == [kind |-> "pending", val |-> 0, of |-> "-"]

compareVersion ==
    /\ cv.ret = Pending
    /\ cv' = [cv EXCEPT !.ret = CompareVersion(cv.v1, cv.v2)]
    /\ UNCHANGED <<disk, files, cache, call, dl>>

\* A call of compareVersion on any two strings of the alphabet.
InitCv ==
    /\ disk = Absent
    /\ files = {}
    /\ cache = [i \in Owners |-> NoCache]
    /\ call = Called("none", 0, NoArg, NoArg, Undefined)
    /\ dl = NoDownload
    /\ cv \in [v1 : VersionStrings, v2 : VersionStrings, ret : {Pending}]

NextCv == compareVersion

SpecCv == InitCv /\ [][NextCv]_vars

\* A component that is an integer: digits only, blanks around them allowed.
IsInteger(c) == Trim(c) # <<>> /\ \A k \in 1..Len(Trim(c)) : IsDigit(Trim(c)[k])

\* Every non-blank component of the string is an integer.
AllIntegers(v) == \A k \in 1..Len(Components(v)) : IsInteger(Components(v)[k])

RECURSIVE Decimal(_)
\* The integer a run of decimal digits denotes.
Decimal(ds) ==
    IF ds = <<>> THEN 0 ELSE 10 * Decimal(SubSeq(ds, 1, Len(ds) - 1)) + DigitValue(ds[Len(ds)])

\* The list of integers of a version string.
Integers(v) == [k \in 1..Len(Components(v)) |-> Decimal(Trim(Components(v)[k]))]

RECURSIVE Lexicographic(_, _)
\* 1, -1 or 0: the lexicographic order of two lists of integers, a proper
\* prefix being smaller.
Lexicographic(a, b) ==
    IF a = <<>> /\ b = <<>> THEN 0
    ELSE IF a = <<>> THEN -1
    ELSE IF b = <<>> THEN 1
    ELSE IF Head(a) > Head(b) THEN 1
    ELSE IF Head(a) < Head(b) THEN -1
    ELSE Lexicographic(Tail(a), Tail(b))

Returned == cv.ret.kind \in {"return", "throw"}

\* C14: when every non-blank component of both strings is an integer,
\* compareVersion returns the lexicographic order of the two integer lists (a
\* proper prefix is smaller), the call with the arguments swapped returns the
\* opposite, and the result is 0 exactly when the lists are equal.
C14_Lexicographic ==
    (Returned /\ AllIntegers(cv.v1) /\ AllIntegers(cv.v2)) =>
        /\ cv.ret = Return(Lexicographic(Integers(cv.v1), Integers(cv.v2)))
        /\ CompareVersion(cv.v2, cv.v1) = Return(0 - cv.ret.val)
        /\ cv.ret.val = 0 <=> Integers(cv.v1) = Integers(cv.v2)

\* compareVersion("100", "11") has returned 1: the numbers decide, not the
\* order of the strings.
C14_Witness ==
    /\ cv.v1 = <<"1", "0", "0">> /\ cv.v2 = <<"1", "1">>
    /\ cv.ret = Return(1)

\* A non-blank component that is not a number (parseInt gives NaN).
NotANumber(c) == NonBlank(c) /\ isNaN(parseInt(c))

HasNotANumber(v) == \E k \in 1..Len(Split(v)) : NotANumber(Split(v)[k])

\* C15: whenever one of the two strings has a non-blank component that is not
\* a number, compareVersion throws its 'must only contain' error.
C15_RejectsMalformed ==
    (Returned /\ (HasNotANumber(cv.v1) \/ HasNotANumber(cv.v2))) => cv.ret.kind = "throw"

====
